---- MODULE Spec2Model ----
(***************************************************************************)
(* Model of pyfeng/heston.py: HestonABC (var_mv, avgvar_mv, varswap) and   *)
(* HestonUncorrBallRoma1994 (price).                                       *)
(*                                                                         *)
(* Numbers are IEEE-754 doubles, as in the source: every +, -, * and / is  *)
(* the exact result rounded to nearest, ties to even.                      *)
(***************************************************************************)
EXTENDS Integers, Naturals, Sequences, FiniteSets, TLC

\* ------------------------------------------------------------------ bounds
MaxCalls == 2
MaxOrder == 3

\* ------------------------------------------------- arithmetic of the source
\* A number is an IEEE-754 double <<s, e, m>>: sign s (1 or -1), exponent e
\* and the 53-bit mantissa m as four base-2^14 limbs, least significant
\* first, with 2^52 <= m < 2^53; its value is s * m * 2^e.  Zero is
\* <<1, 0, <<0, 0, 0, 0>>>> (the sign of a zero is not kept).  Every
\* operation computes the exact result and rounds it to nearest, ties to
\* even.  Python's None is <<0, 0, <<>>>>, which is no number.
\* An operator that uses an argument more than once takes it as a value:
\* it is bound once, as the element of a singleton set.
None == <<0, 0, <<>>>>

Limb == 16384
MantBits == 53

Abs(i) == IF i < 0 THEN -i ELSE i
Max(a, b) == IF a >= b THEN a ELSE b

\* natural numbers of any size: sequences of limbs, least significant first
BLimb(x, i) == IF i <= Len(x) THEN x[i] ELSE 0

RECURSIVE BCarry(_, _, _)
BCarry(x, i, c) ==
    IF i > Len(x)
    THEN IF c = 0 THEN <<>> ELSE <<c % Limb>> \o BCarry(x, i, c \div Limb)
    ELSE <<(x[i] + c) % Limb>> \o BCarry(x, i + 1, (x[i] + c) \div Limb)

RECURSIVE BTop(_, _)
BTop(x, i) == IF i = 0 THEN 0 ELSE IF x[i] # 0 THEN i ELSE BTop(x, i - 1)

BTrim(x) == SubSeq(x, 1, BTop(x, Len(x)))

BNat(i) == BCarry(<<>>, 1, i)

BAdd(x, y) ==
    CHOOSE r \in {BCarry(s, 1, 0) :
                  s \in {<<>> \o [i \in 1..Max(Len(x), Len(y)) |->
                                     BLimb(x, i) + BLimb(y, i)]}} : TRUE

\* x - y for x >= y
RECURSIVE BSubFrom(_, _, _, _)
BSubFrom(x, y, i, borrow) ==
    IF i > Len(x) THEN <<>>
    ELSE CHOOSE r \in {<<IF t < 0 THEN t + Limb ELSE t>>
                       \o BSubFrom(x, y, i + 1, IF t < 0 THEN 1 ELSE 0) :
                       t \in {x[i] - BLimb(y, i) - borrow}} : TRUE

BSub(x, y) == BSubFrom(x, y, 1, 0)

\* -1, 0, 1 as x < y, x = y, x > y
RECURSIVE BCmpFrom(_, _, _)
BCmpFrom(x, y, i) ==
    IF i = 0 THEN 0
    ELSE IF BLimb(x, i) < BLimb(y, i) THEN -1
    ELSE IF BLimb(x, i) > BLimb(y, i) THEN 1
    ELSE BCmpFrom(x, y, i - 1)

BCmp(x, y) == BCmpFrom(x, y, Max(Len(x), Len(y)))

RECURSIVE BColumn(_, _, _, _)
BColumn(x, y, k, i) ==
    IF i > Len(x) \/ i > k THEN 0
    ELSE (IF k + 1 - i <= Len(y) THEN x[i] * y[k + 1 - i] ELSE 0)
         + BColumn(x, y, k, i + 1)

\* x * y, for x and y of at most four limbs
BMul(x, y) ==
    IF x = <<>> \/ y = <<>> THEN <<>>
    ELSE CHOOSE r \in {BCarry(s, 1, 0) :
                       s \in {<<>> \o [k \in 1..(Len(x) + Len(y) - 1) |->
                                          BColumn(x, y, k, 1)]}} : TRUE

RECURSIVE BitsOf(_)
BitsOf(n) == IF n = 0 THEN 0 ELSE 1 + BitsOf(n \div 2)

BitLen(x) ==
    CHOOSE r \in {IF t = 0 THEN 0 ELSE 14 * (t - 1) + BitsOf(x[t]) :
                  t \in {BTop(x, Len(x))}} : TRUE

\* x * 2^s
BShl(x, s) ==
    CHOOSE r \in {[i \in 1..(s \div 14) |-> 0] \o BCarry(t, 1, 0) :
                  t \in {<<>> \o [i \in 1..Len(x) |-> x[i] * 2^(s % 14)]}} :
        TRUE

\* floor(x / 2^s)
BShr(x, s) ==
    CHOOSE r \in {<<>> \o [i \in 1..Max(Len(x) - w, 0) |->
                      (x[i + w] \div 2^b)
                      + (BLimb(x, i + w + 1) % 2^b) * 2^(14 - b)] :
                  w \in {s \div 14}, b \in {s % 14}} : TRUE

BOdd(x) == BLimb(x, 1) % 2 = 1

BPad4(x) == <<BLimb(x, 1), BLimb(x, 2), BLimb(x, 3), BLimb(x, 4)>>

Zero == <<1, 0, <<0, 0, 0, 0>>>>

\* the mantissa of a power of two, 2^52
MantPow2 == <<0, 0, 0, 1024>>

\* q2 is n with all but one of the bits to drop removed: round on that bit,
\* to even when no lower bit of n is set
RoundDrop(s, n, e, k, q2) ==
    CHOOSE res \in {IF BitLen(r) > MantBits
                    THEN <<s, e + k + 1, BPad4(BShr(r, 1))>>
                    ELSE <<s, e + k, BPad4(r)>> :
                    r \in {CHOOSE t \in {IF BOdd(q2)
                                            /\ (BOdd(q)
                                                \/ BCmp(BShl(q2, k - 1), n) # 0)
                                         THEN BAdd(q, <<1>>) ELSE q :
                                         q \in {BShr(q2, 1)}} : TRUE}} : TRUE

RoundBits(s, n, e, k) ==
    IF k = -MantBits THEN Zero
    ELSE IF k <= 0 THEN <<s, e + k, BPad4(BShl(n, -k))>>
    ELSE CHOOSE r \in {RoundDrop(s, n, e, k, q2) : q2 \in {BShr(n, k - 1)}} :
             TRUE

\* the double nearest to s * n * 2^e, ties to even
Round(s, n, e) ==
    CHOOSE r \in {RoundBits(vs, vn, ve, BitLen(vn) - MantBits) :
                  vs \in {s}, vn \in {n}, ve \in {e}} : TRUE

\* the integer i as a double
BigNum(i) == Round(IF i < 0 THEN -1 ELSE 1, BNat(Abs(i)), 0)

\* the same for 0 < |i| < 2^11, whose bits all lie in the last limb
Num(i) ==
    <<IF i < 0 THEN -1 ELSE 1, BitsOf(Abs(i)) - MantBits,
      <<0, 0, 0, Abs(i) * 2^(11 - BitsOf(Abs(i)))>>>>

One == <<1, -52, MantPow2>>

IsZero(x) == x[3] = Zero[3]

FNegV(x) == IF IsZero(x) THEN x ELSE <<-x[1], x[2], x[3]>>

FNeg(x) == CHOOSE r \in {FNegV(v) : v \in {x}} : TRUE

FAbs(x) == CHOOSE r \in {<<1, v[2], v[3]>> : v \in {x}} : TRUE

\* hi + lo for nonzero hi and lo, the exponent of hi not below that of lo
FAddOrdered(hi, lo) ==
    IF hi[2] - lo[2] > 60 THEN hi
    ELSE CHOOSE r \in {Round(IF hi[1] = lo[1] \/ BCmp(a, lo[3]) >= 0
                             THEN hi[1] ELSE lo[1],
                             IF hi[1] = lo[1] THEN BAdd(a, lo[3])
                             ELSE IF BCmp(a, lo[3]) >= 0 THEN BSub(a, lo[3])
                             ELSE BSub(lo[3], a),
                             lo[2]) :
                       a \in {BShl(hi[3], hi[2] - lo[2])}} : TRUE

FAddV(x, y) ==
    IF IsZero(x) THEN y
    ELSE IF IsZero(y) THEN x
    ELSE IF x[2] >= y[2] THEN FAddOrdered(x, y) ELSE FAddOrdered(y, x)

\* x + y: the exact sum, rounded once
FAdd(x, y) == CHOOSE r \in {FAddV(a, b) : a \in {x}, b \in {y}} : TRUE

FSub(x, y) == FAdd(x, FNeg(y))

FMulV(x, y) ==
    IF IsZero(x) \/ IsZero(y) THEN Zero
    ELSE IF y[3] = MantPow2 THEN <<x[1] * y[1], x[2] + y[2] + 52, x[3]>>
    ELSE IF x[3] = MantPow2 THEN <<x[1] * y[1], x[2] + y[2] + 52, y[3]>>
    ELSE Round(x[1] * y[1], BMul(x[3], y[3]), x[2] + y[2])

\* x * y: the exact product, rounded once; by a power of two it is exact
FMul(x, y) == CHOOSE r \in {FMulV(a, b) : a \in {x}, b \in {y}} : TRUE

\* one digit of the long division of t = r * 2^14 by v, for r < v and v of
\* 56 bits, from the estimate q that is not below it: <<digit, remainder>>
RECURSIVE DivFix(_, _, _)
DivFix(q, t, v) ==
    CHOOSE r \in {IF BCmp(p, t) > 0 THEN DivFix(q - 1, t, v)
                  ELSE <<q, BTrim(BSub(t, p))>> :
                  p \in {BMul(<<q>>, v)}} : TRUE

DivDigit(r, v) ==
    CHOOSE d \in {DivFix(IF est >= Limb THEN Limb - 1 ELSE est, t, v) :
                  <<t, est>> \in {CHOOSE p \in {<<s, (BLimb(s, 5) * Limb
                                                     + BLimb(s, 4)) \div v[4]>> :
                                                s \in {<<0>> \o r}} : TRUE}} :
        TRUE

\* k more digits of the quotient q, most significant first in the division
\* and least significant first in q, and the last remainder
RECURSIVE DivDigits(_, _, _, _)
DivDigits(q, r, v, k) ==
    IF k = 0 THEN <<q, r>>
    ELSE CHOOSE res \in {DivDigits(<<d[1]>> \o q, d[2], v, k - 1) :
                         d \in {DivDigit(r, v)}} : TRUE

\* u / v for mantissas u and v of 56 bits: the quotient to 57 or 58 bits,
\* its last bit set when the division is not exact
DivMant(u, v) ==
    CHOOSE n \in {BAdd(BShl(d[1], 1), IF d[2] = <<>> THEN <<>> ELSE <<1>>) :
                  d \in {IF BCmp(u, v) >= 0
                         THEN DivDigits(<<1>>, BTrim(BSub(u, v)), v, 4)
                         ELSE DivDigits(<<0>>, BTrim(u), v, 4)}} : TRUE

FDivV(x, y) ==
    IF IsZero(x) THEN Zero
    ELSE IF y[3] = MantPow2 THEN <<x[1] * y[1], x[2] - y[2] - 52, x[3]>>
    ELSE CHOOSE r \in {Round(x[1] * y[1], DivMant(u, v), x[2] - y[2] - 57) :
                       u \in {BShl(x[3], 3)}, v \in {BPad4(BShl(y[3], 3))}} :
             TRUE

\* x / y for y # 0: the exact quotient, rounded once; by a power of two it
\* is exact
FDiv(x, y) == CHOOSE r \in {FDivV(a, b) : a \in {x}, b \in {y}} : TRUE

\* the literal n/d
R(n, d) == FDiv(Num(n), Num(d))

\* x**2 is the C library's pow(x, 2.0), which errs by less than 0.54 units
\* in the last place: it is the double nearest to the exact square n unless
\* n lies within 1/16 of a unit of the midpoint of two doubles, that is
\* unless the four bits of n below the last one kept are 0111 or 1000
SqNearTie(n) ==
    BLimb(BShr(n, BitLen(n) - MantBits - 4), 1) % 16 \in {7, 8}

\* pow(x, 2.0) where the square is that near a midpoint, a table of the
\* doubles the library returns; no value at another argument
SqTable(x) ==
    CASE x = <<1, -52, <<5316, 24, 3359, 1686>>>> ->  \* 1.6466845870902924
           <<1, -51, <<4488, 14413, 5306, 1388>>>>  \* 2.7115701293607266
      [] x = <<1, -53, <<5316, 24, 3359, 1686>>>> ->  \* 0.8233422935451462
           <<1, -53, <<4488, 14413, 5306, 1388>>>>  \* 0.6778925323401817
      [] x = <<1, -59, <<5179, 1160, 14114, 1902>>>> ->  \* 0.014517680774824729
           <<1, -65, <<3884, 11808, 141, 1768>>>>  \* 0.00021076305507971552
      [] x = <<1, -50, <<8284, 2402, 2318, 1192>>>> ->  \* 4.6568026892274155
           <<1, -48, <<3091, 4185, 14613, 1387>>>>  \* 21.685811286395687

FSqV(x) ==
    IF IsZero(x) THEN Zero
    ELSE CHOOSE r \in {IF SqNearTie(n) THEN SqTable(x)
                       ELSE Round(1, n, x[2] + x[2]) :
                       n \in {BMul(x[3], x[3])}} : TRUE

\* x**2
FSq(x) == CHOOSE r \in {FSqV(a) : a \in {x}} : TRUE

\* x <= y
FLe(x, y) == CHOOSE r \in {IsZero(d) \/ d[1] = -1 : d \in {FSub(x, y)}} : TRUE

\* np.exp(-a), a table of the doubles the library returns: at 0.5, 1, 2 and
\* 4, the values mr*dt, mr*texp and mr/n_per_yr take in the calls below, and
\* at 0.25, 1.5, 2.5, 3 and 8; no value at another argument
ExpNegV(a) ==
    CASE a = R(1, 2) -> <<1, -53, <<5642, 12734, 2863, 1242>>>>  \* 0.6065306597126334
      [] a = Num(1) -> <<1, -54, <<12088, 6323, 13667, 1506>>>>  \* 0.36787944117144233
      [] a = Num(2) -> <<1, -55, <<460, 3838, 10922, 1108>>>>  \* 0.1353352832366127
      [] a = Num(4) -> <<1, -58, <<15604, 8324, 5467, 1200>>>>  \* 0.01831563888873418
      [] a = R(1, 4) -> <<1, -53, <<523, 15026, 16121, 1594>>>>  \* 0.7788007830714049
      [] a = R(3, 2) -> <<1, -55, <<7197, 2349, 14455, 1827>>>>  \* 0.22313016014842982
      [] a = R(5, 2) -> <<1, -56, <<13349, 595, 14428, 1344>>>>  \* 0.0820849986238988
      [] a = Num(3) -> <<1, -57, <<12463, 13114, 6924, 1631>>>>  \* 0.049787068367863944
      [] a = Num(8) -> <<1, -64, <<10157, 4160, 528, 1407>>>>  \* 0.00033546262790251185

ExpNeg(a) == CHOOSE r \in {ExpNegV(v) : v \in {a}} : TRUE

\* np.isclose(a, b) with the default rtol = 1e-05 and atol = 1e-08:
\* |a - b| <= atol + rtol*|b|
rtol == FDiv(One, BigNum(100000))
atol == FDiv(One, BigNum(100000000))
isclose(a, b) == FLe(FAbs(FSub(a, b)), FAdd(atol, FMul(rtol, FAbs(b))))

\* Python truth value of a number or None
Truthy(x) == x # None /\ ~IsZero(x)

\* Python "a or b"
Or(a, b) == CHOOSE r \in {IF Truthy(v) THEN v ELSE b : v \in {a}} : TRUE

\* ------------------------------------------------------------- HestonABC
\* mutant: var_mv keeps the variance it was given as the instance's sigma
var_mv_keeps_var0(self, var0, dt) ==
    LET expo == ExpNeg(FMul(self.mr, dt))
        m == FAdd(self.theta, FMul(FSub(var0, self.theta), expo))
        s2a == FAdd(FMul(var0, expo),
                    FDiv(FMul(self.theta, FSub(One, expo)), Num(2)))
        s2 == FMul(s2a, FDiv(FMul(FSq(self.vov), FSub(One, expo)), self.mr))
    IN  [self |-> [self EXCEPT !.sigma = var0], mean |-> m, var |-> s2]

var_mv(self, var0, dt) ==
    LET expo == ExpNeg(FMul(self.mr, dt))
        m == FAdd(self.theta, FMul(FSub(var0, self.theta), expo))
        s2a == FAdd(FMul(var0, expo),
                    FDiv(FMul(self.theta, FSub(One, expo)), Num(2)))
        s2 == FMul(s2a, FDiv(FMul(FSq(self.vov), FSub(One, expo)), self.mr))
    IN  [self |-> self, mean |-> m, var |-> s2]

avgvar_mv(self, texp, var0_arg) ==
    LET var0 == Or(var0_arg, self.sigma)
        mr_t == FMul(self.mr, texp)
        e_mr_t == ExpNeg(mr_t)
        x0 == FSub(var0, self.theta)
        mean == FAdd(self.theta, FDiv(FMul(x0, FSub(One, e_mr_t)), mr_t))
        inner == FAdd(FSub(var0, FMul(R(5, 2), self.theta)),
                      FMul(FSub(var0, FDiv(self.theta, Num(2))), e_mr_t))
        var1 == FAdd(FSub(self.theta, FMul(FMul(Num(2), x0), e_mr_t)),
                     FDiv(FMul(FSub(One, e_mr_t), inner), mr_t))
        var == FMul(var1, FMul(FSq(FDiv(self.vov, mr_t)), texp))
    IN  [self |-> self, mean |-> mean, var |-> var]

\* mutant: x0 with the sign reversed
varswap_base_x0_reversed(self, texp) ==
    LET var0 == self.sigma
        mr_t == FMul(self.mr, texp)
        e_mr_t == ExpNeg(mr_t)
        x0 == FSub(self.theta, var0)
    IN  FAdd(self.theta, FDiv(FMul(x0, FSub(One, e_mr_t)), mr_t))

\* continuously monitored fair strike, the statements before the "if"
varswap_base(self, texp) ==
    LET var0 == self.sigma
        mr_t == FMul(self.mr, texp)
        e_mr_t == ExpNeg(mr_t)
        x0 == FSub(var0, self.theta)
    IN  FAdd(self.theta, FDiv(FMul(x0, FSub(One, e_mr_t)), mr_t))

\* adjustment for discrete monitoring, the body of the "if": one operator
\* per "strike +=" statement, each from the running strike to the new one

\* tmp = self.theta - 2*self.intr
varswap_tmp1(self) == FSub(self.theta, FMul(Num(2), self.intr))

\* tmp = self.vov / self.mr
varswap_tmp2(self) == FDiv(self.vov, self.mr)

\* strike += tmp/(4*n_per_yr)*(tmp + 2*x0*(1 - e_mr_t)/mr_t)
varswap_adj1(self, texp, n_per_yr, strike) ==
    LET mr_t == FMul(self.mr, texp)
        e_mr_t == ExpNeg(mr_t)
        x0 == FSub(self.sigma, self.theta)
        tmp == varswap_tmp1(self)
    IN  FAdd(strike,
             FMul(FDiv(tmp, FMul(Num(4), n_per_yr)),
                  FAdd(tmp, FDiv(FMul(FMul(Num(2), x0), FSub(One, e_mr_t)), mr_t))))

\* strike += self.theta * tmp * (tmp/4 - self.rho) * (1 - (1-e_mr_a)/mr_a)
varswap_adj2(self, texp, n_per_yr, strike) ==
    LET mr_a == FDiv(self.mr, n_per_yr)
        e_mr_a == ExpNeg(mr_a)
        tmp == varswap_tmp2(self)
    IN  FAdd(strike,
             FMul(FMul(FMul(self.theta, tmp), FSub(FDiv(tmp, Num(4)), self.rho)),
                  FSub(One, FDiv(FSub(One, e_mr_a), mr_a))))

\* mutant: the cross term on the tmp of the rate term
varswap_adj3_stale_tmp(self, texp, n_per_yr, strike) ==
    LET mr_t == FMul(self.mr, texp)
        e_mr_t == ExpNeg(mr_t)
        x0 == FSub(self.sigma, self.theta)
        mr_a == FDiv(self.mr, n_per_yr)
        e_mr_a == ExpNeg(mr_a)
        tmp == varswap_tmp1(self)
    IN  FAdd(strike,
             FMul(FDiv(FMul(FMul(FMul(x0, tmp), FSub(FDiv(tmp, Num(2)), self.rho)),
                            FSub(One, e_mr_t)), mr_t),
                  FAdd(One, FDiv(mr_a, FSub(One, FDiv(One, e_mr_a))))))

\* strike += x0 * tmp * (tmp/2 - self.rho) * (1 - e_mr_t)/mr_t
\*           * (1 + mr_a/(1 - 1/e_mr_a))
varswap_adj3(self, texp, n_per_yr, strike) ==
    LET mr_t == FMul(self.mr, texp)
        e_mr_t == ExpNeg(mr_t)
        x0 == FSub(self.sigma, self.theta)
        mr_a == FDiv(self.mr, n_per_yr)
        e_mr_a == ExpNeg(mr_a)
        tmp == varswap_tmp2(self)
    IN  FAdd(strike,
             FMul(FDiv(FMul(FMul(FMul(x0, tmp), FSub(FDiv(tmp, Num(2)), self.rho)),
                            FSub(One, e_mr_t)), mr_t),
                  FAdd(One, FDiv(mr_a, FSub(One, FDiv(One, e_mr_a))))))

\* strike += (tmp**2*(self.theta - 2*var0) + 2*x0**2/self.mr)
\*           * (1 - e_mr_t**2)/(8*mr_t) * (1-e_mr_a)/(1+e_mr_a)
varswap_adj4(self, texp, n_per_yr, strike) ==
    LET var0 == self.sigma
        mr_t == FMul(self.mr, texp)
        e_mr_t == ExpNeg(mr_t)
        x0 == FSub(var0, self.theta)
        mr_a == FDiv(self.mr, n_per_yr)
        e_mr_a == ExpNeg(mr_a)
        tmp == varswap_tmp2(self)
    IN  FAdd(strike,
             FDiv(FMul(FDiv(FMul(FAdd(FMul(FSq(tmp), FSub(self.theta, FMul(Num(2), var0))),
                                      FDiv(FMul(Num(2), FSq(x0)), self.mr)),
                                 FSub(One, FSq(e_mr_t))),
                            FMul(Num(8), mr_t)),
                       FSub(One, e_mr_a)),
                  FAdd(One, e_mr_a)))

varswap(self, texp, n_per_yr) ==
    LET strike == varswap_base(self, texp)
    IN  [self |-> self,
         ret |-> IF n_per_yr # None
                 THEN varswap_adj4(self, texp, n_per_yr,
                        varswap_adj3(self, texp, n_per_yr,
                          varswap_adj2(self, texp, n_per_yr,
                            varswap_adj1(self, texp, n_per_yr, strike))))
                 ELSE strike]

\* ------------------------------------------------ the external collaborators
\* np.sqrt(x): the number whose square is x
Sqrt(x) == [sq |-> x]

\* bsm.Bsm(sigma, intr=..., divr=...): the pricer object
Bsm(sigma, intr, divr) == [sigma |-> sigma, intr |-> intr, divr |-> divr]

\* Bsm.price: a deterministic stand-in for the Black-Scholes price, a
\* function of the pricer's three parameters and of the four arguments
Bsm_price(m_bs, strike, spot, texp, cp) ==
    FAdd(FMul(cp, FSub(FMul(spot, FSub(One, FMul(m_bs.divr, texp))),
                       FMul(strike, FSub(One, FMul(m_bs.intr, texp))))),
         FMul(FMul(m_bs.sigma.sq, texp), spot))

\* Bsm.d2_var: a deterministic stand-in for the second derivative of the
\* price with respect to variance
Bsm_d2_var(m_bs, strike, spot, texp, cp) ==
    FAdd(FDiv(FMul(spot, texp), FAdd(strike, m_bs.sigma.sq)),
         FMul(cp, FSub(m_bs.intr, m_bs.divr)))

\* ------------------------------------------------ HestonUncorrBallRoma1994
\* mutant: rho compared with 0 exactly
price_warn_exact(self) ==
    IF self.rho # Zero THEN <<"print">> ELSE <<>>

\* the check of rho at the head of price: what it prints
price_warn(self) ==
    IF ~isclose(self.rho, Zero) THEN <<"print">> ELSE <<>>

\* mutant: the error only above order 3
price_case_above3(order) ==
    IF order = 2 THEN "correct"
    ELSE IF order > 3 THEN "raise"
    ELSE "plain"

\* mutant: the correction from order 1 on
price_case_from1(order) ==
    IF order = 1 \/ order = 2 THEN "correct"
    ELSE IF order > 2 THEN "raise"
    ELSE "plain"

\* mutant: every order but 1 and 2 is an error
price_case_strict(order) ==
    IF order = 2 THEN "correct"
    ELSE IF order # 1 THEN "raise"
    ELSE "plain"

\* the if / elif on self.order at the end of price
price_case(order) ==
    IF order = 2 THEN "correct"
    ELSE IF order > 2 THEN "raise"
    ELSE "plain"

\* mutant: the correction without its factor 0.5
price_correct_no_half(price0, var, d2) == FAdd(price0, FMul(var, d2))

\* price += 0.5*var*m_bs.d2_var(...)
price_correct(price0, var, d2) == FAdd(price0, FMul(FMul(R(1, 2), var), d2))

\* price, mv being what self.avgvar_mv(texp) returns at line 108
\* events: what the call did, in the order of the source
price_from(self, mv, strike, spot, texp, cp) ==
    LET ev0 == price_warn(self)
        avgvar == mv.mean
        var == mv.var
        m_bs == Bsm(Sqrt(avgvar), self.intr, self.divr)
        price0 == Bsm_price(m_bs, strike, spot, texp, cp)
        ev1 == ev0 \o <<"avgvar_mv", "Bsm", "Bsm.price">>
        kind == price_case(self.order)
    IN  IF kind = "correct"
        THEN [self |-> mv.self,
              ret |-> price_correct(price0, var,
                                    Bsm_d2_var(m_bs, strike, spot, texp, cp)),
              raised |-> "None",
              events |-> ev1 \o <<"Bsm.d2_var", "return">>]
        ELSE IF kind = "raise"
        THEN [self |-> mv.self, ret |-> None, raised |-> "ValueError",
              events |-> ev1 \o <<"raise">>]
        ELSE [self |-> mv.self, ret |-> price0, raised |-> "None",
              events |-> ev1 \o <<"return">>]

\* the moments are computed once
price(self, strike, spot, texp, cp) ==
    CHOOSE r \in {price_from(self, mv, strike, spot, texp, cp) :
                  mv \in {avgvar_mv(self, texp, None)}} : TRUE

\* ------------------------------------------------------------ the instance
\* the parameters of the constructor (sv.SvABC.__init__) and the class
\* attribute order, which a subclass or an assignment may set differently
MR == {Num(1), Num(2)}
THETA == {Zero, R(1, 4)}
RHO == {Zero, R(1, 2)}
SIGMA == {Zero, R(1, 4)}
ORDER == (-1)..MaxOrder

\* rho = 1e-9: not zero, and numerically zero for np.isclose
TinyRho == FDiv(One, BigNum(1000000000))

\* vov = 1.6466845870902924, whose square pow rounds away from the nearest
\* double
NearTieVov == <<1, -52, <<5316, 24, 3359, 1686>>>>

\* every parameter set at the order of the class, and every order at some
\* of them, a rho that only np.isclose takes for zero among them, and a vov
\* at which vov**2 is not vov*vov
Instances ==
    [mr : MR, theta : THETA, vov : {R(1, 2)}, rho : RHO, intr : {R(1, 4)},
     divr : {Zero}, sigma : SIGMA, order : {2}]
    \cup [mr : {Num(1)}, theta : THETA, vov : {R(1, 2)}, rho : RHO,
          intr : {R(1, 4)}, divr : {Zero}, sigma : {R(1, 4)}, order : ORDER]
    \cup [mr : {Num(1)}, theta : {R(1, 4)}, vov : {R(1, 2)}, rho : {TinyRho},
          intr : {Zero}, divr : {R(1, 4)}, sigma : {R(1, 2)}, order : ORDER]
    \cup [mr : {Num(1)}, theta : {R(1, 4)}, vov : {NearTieVov}, rho : {Zero},
          intr : {R(1, 4)}, divr : {Zero}, sigma : {R(1, 4)}, order : {2}]

\* the arguments of the calls
TEXP == {Num(1), Num(2)}
VAR0 == {None, Zero, R(1, 4)}
NPERYR == {None, Num(1), Num(2)}
STRIKE == {Num(2)}
SPOT == {Num(1)}
CP == {Num(1), Num(-1)}

VARIABLES self, self0, last, nprice, nwarn

vars == <<self, self0, last, nprice, nwarn>>

Count(seq, x) == Cardinality({i \in DOMAIN seq : seq[i] = x})

Init ==
    /\ self \in Instances
    /\ self0 = self
    /\ last = [op |-> "init", args |-> <<>>, ret |-> <<None, None>>,
               raised |-> "None", events |-> <<>>]
    /\ nprice = 0
    /\ nwarn = 0

\* One action per method call; r is the result of the call, bound once:
\* the instance after it, what it returned or raised, and what it did.
Call_var_mv ==
    \E var0 \in {Zero, R(1, 2)}, dt \in TEXP :
        \E r \in {var_mv(self, var0, dt)} :
            /\ self' = r.self
            /\ last' = [op |-> "var_mv", args |-> <<var0, dt>>,
                        ret |-> <<r.mean, r.var>>, raised |-> "None",
                        events |-> <<"return">>]
            /\ UNCHANGED <<self0, nprice, nwarn>>

Call_avgvar_mv ==
    \E texp \in TEXP, var0 \in VAR0 :
        \E r \in {avgvar_mv(self, texp, var0)} :
            /\ self' = r.self
            /\ last' = [op |-> "avgvar_mv", args |-> <<texp, var0>>,
                        ret |-> <<r.mean, r.var>>, raised |-> "None",
                        events |-> <<"return">>]
            /\ UNCHANGED <<self0, nprice, nwarn>>

Call_varswap ==
    \E texp \in TEXP, n_per_yr \in NPERYR :
        \E r \in {varswap(self, texp, n_per_yr)} :
            /\ self' = r.self
            /\ last' = [op |-> "varswap", args |-> <<texp, n_per_yr>>,
                        ret |-> <<r.ret, None>>, raised |-> "None",
                        events |-> <<"return">>]
            /\ UNCHANGED <<self0, nprice, nwarn>>

Call_price ==
    /\ nprice < MaxCalls
    /\ \E strike \in STRIKE, spot \in SPOT, texp \in TEXP, cp \in CP :
        \E r \in {price(self, strike, spot, texp, cp)} :
            /\ self' = r.self
            /\ last' = [op |-> "price", args |-> <<strike, spot, texp, cp>>,
                        ret |-> <<r.ret, None>>, raised |-> r.raised,
                        events |-> r.events]
            /\ nprice' = nprice + 1
            /\ nwarn' = nwarn + Count(r.events, "print")
            /\ UNCHANGED self0

Next == Call_var_mv \/ Call_avgvar_mv \/ Call_varswap \/ Call_price

Spec == Init /\ [][Next]_vars

TypeOK == nprice \in 0..MaxCalls /\ nwarn \in 0..MaxCalls

\* ------------------------------------------------------------- the claims
IsPrice == last.op = "price"
Has(seq, x) == \E i \in DOMAIN seq : seq[i] = x
NoPrint(seq) == SelectSeq(seq, LAMBDA e : e # "print")

\* the arguments of the last call of price
Strike == last.args[1]
Spot == last.args[2]
Texp == last.args[3]
Cp == last.args[4]

\* the external pricer the claims speak of: volatility sqrt(avgVarMean) with
\* the moments taken at var0 = sigma, and the model's intr and divr
Moments == avgvar_mv(self, Texp, self.sigma)
Pricer == Bsm(Sqrt(Moments.mean), self.intr, self.divr)
Base == Bsm_price(Pricer, Strike, Spot, Texp, Cp)
D2 == Bsm_d2_var(Pricer, Strike, Spot, Texp, Cp)

\* rho is numerically zero: |rho| <= 1e-8
RhoIsZero == FLe(FAbs(self.rho), atol)

\* C1 as stated: a call of price on an instance with order > 2 fails with the
\* unsupported-order error, returns nothing, and has computed neither the
\* average-variance moments nor the base price before failing.
C1_NoComputationBeforeFailing ==
    (IsPrice /\ self.order > 2) =>
        /\ last.raised = "ValueError"
        /\ last.ret[1] = None
        /\ ~Has(last.events, "avgvar_mv")
        /\ ~Has(last.events, "Bsm.price")

\* C1 amended: a call of price on an instance with order > 2 fails with the
\* unsupported-order error and returns nothing, after the check of rho (with
\* its warning when rho is not numerically zero), the moments and the base
\* price have been computed; only the second derivative is not computed.
C1_FailsAfterBasePrice ==
    (IsPrice /\ self.order > 2) =>
        /\ last.raised = "ValueError"
        /\ last.ret[1] = None
        /\ NoPrint(last.events) = <<"avgvar_mv", "Bsm", "Bsm.price", "raise">>
        /\ Count(last.events, "print") = (IF RhoIsZero THEN 0 ELSE 1)

C1_Witness == IsPrice /\ self.order > 2 /\ last.raised = "ValueError"

\* C2: with order = 2 the returned price is base + 0.5*avgVarVar*d2, base and
\* d2 from the one pricer built with sqrt(avgVarMean), intr and divr, at the
\* arguments of the call.
C2_Order2Price ==
    (IsPrice /\ self.order = 2) =>
        /\ last.raised = "None"
        /\ last.ret[1] = FAdd(Base, FMul(R(1, 2), FMul(Moments.var, D2)))

C2_Witness == IsPrice /\ self.order = 2 /\ last.raised = "None" /\ last.ret[1] # Base

\* C3: with order = 1 the returned price is exactly the base price and the
\* second derivative of the pricer is not evaluated.
C3_Order1Price ==
    (IsPrice /\ self.order = 1) =>
        /\ last.raised = "None"
        /\ last.ret[1] = Base
        /\ ~Has(last.events, "Bsm.d2_var")

C3_Witness ==
    IsPrice /\ self.order = 1 /\ last.ret[1] = Base /\ FMul(Moments.var, D2) # Zero

\* C4: with order 1 or 2, a call of price with rho not numerically zero prints
\* the warning once, before it returns, and returns the price the same
\* instance with rho = 0 returns; with rho numerically zero it prints nothing;
\* so the warnings printed number the calls of price made with rho not zero.
C4_WarningPerCall ==
    (self.order \in {1, 2}) =>
        /\ nwarn = (IF RhoIsZero THEN 0 ELSE nprice)
        /\ IsPrice =>
            /\ Count(last.events, "print") = (IF RhoIsZero THEN 0 ELSE 1)
            /\ ~RhoIsZero => last.events[1] = "print"
            /\ last.events[Len(last.events)] = "return"
            /\ last.ret[1] =
                 price([self EXCEPT !.rho = Zero], Strike, Spot, Texp, Cp).ret

C4_Witness ==
    /\ self.order \in {1, 2} /\ ~RhoIsZero /\ IsPrice
    /\ nprice = 2 /\ nwarn = 2 /\ last.ret[1] # None

\* the mean of the average variance from an initial variance v
MeanFrom(v, texp) ==
    LET a == FMul(self.mr, texp)
        e == ExpNeg(a)
    IN  FAdd(self.theta, FDiv(FMul(FSub(v, self.theta), FSub(One, e)), a))

\* C5: avgvar_mv takes sigma for var0 only when var0 is not supplied: for
\* every supplied var0, 0 included, the mean is computed from that var0.
C5_SuppliedVar0Used ==
    (last.op = "avgvar_mv" /\ last.args[2] # None) =>
        last.ret[1] = MeanFrom(last.args[2], last.args[1])

\* C6: started at the long-run mean (var0 = theta passed, or var0 omitted
\* and sigma = theta), the mean of the average variance is theta.
C6_MeanAtTheta ==
    (/\ last.op = "avgvar_mv"
     /\ \/ last.args[2] = self.theta
        \/ last.args[2] = None /\ self.sigma = self.theta) =>
        last.ret[1] = self.theta

\* C7: varswap with n_per_yr = None returns the mean avgvar_mv returns for the
\* same texp with var0 omitted.
C7_ContinuousStrike ==
    (last.op = "varswap" /\ last.args[2] = None) =>
        last.ret[1] = avgvar_mv(self, last.args[1], None).mean

C7_Witness ==
    /\ last.op = "varswap" /\ last.args[2] = None
    /\ last.ret[1] # self.theta /\ last.ret[1] # self.sigma

\* what the last call returns on the instance as constructed
FreshResult ==
    CASE last.op = "var_mv" ->
            LET r == var_mv(self0, last.args[1], last.args[2])
            IN  [ret |-> <<r.mean, r.var>>, raised |-> "None"]
      [] last.op = "avgvar_mv" ->
            LET r == avgvar_mv(self0, last.args[1], last.args[2])
            IN  [ret |-> <<r.mean, r.var>>, raised |-> "None"]
      [] last.op = "varswap" ->
            LET r == varswap(self0, last.args[1], last.args[2])
            IN  [ret |-> <<r.ret, None>>, raised |-> "None"]
      [] last.op = "price" ->
            LET r == price(self0, last.args[1], last.args[2], last.args[3],
                           last.args[4])
            IN  [ret |-> <<r.ret, None>>, raised |-> r.raised]
      [] OTHER -> [ret |-> last.ret, raised |-> last.raised]

\* C8: no call changes a parameter or the order, and after any sequence of
\* calls, failed ones included, a call returns (or raises) what it does on a
\* freshly constructed instance with the same parameters.
C8_NoStateKept ==
    /\ self = self0
    /\ last.ret = FreshResult.ret
    /\ last.raised = FreshResult.raised

C8_Witness ==
    /\ nprice >= 1 /\ self.order > 2
    /\ last.op = "avgvar_mv" /\ last.args[2] # None /\ last.args[2] # self.sigma

\* the four correction terms of C9, each from the parameters, texp and
\* n_per_yr alone, with the operations of the source in their order
TermX0 == FSub(self.sigma, self.theta)
TermA == FMul(self.mr, last.args[1])
TermE == ExpNeg(TermA)
TermAMon == FDiv(self.mr, last.args[2])
TermEMon == ExpNeg(TermAMon)
TermTmp1 == FSub(self.theta, FMul(Num(2), self.intr))
TermTmp2 == FDiv(self.vov, self.mr)
TermRate ==
    FMul(FDiv(TermTmp1, FMul(Num(4), last.args[2])),
         FAdd(TermTmp1,
              FDiv(FMul(FMul(Num(2), TermX0), FSub(One, TermE)), TermA)))
TermVov ==
    FMul(FMul(FMul(self.theta, TermTmp2), FSub(FDiv(TermTmp2, Num(4)), self.rho)),
         FSub(One, FDiv(FSub(One, TermEMon), TermAMon)))
TermCross ==
    FMul(FDiv(FMul(FMul(FMul(TermX0, TermTmp2),
                        FSub(FDiv(TermTmp2, Num(2)), self.rho)),
                   FSub(One, TermE)),
              TermA),
         FAdd(One, FDiv(TermAMon, FSub(One, FDiv(One, TermEMon)))))
TermConvex ==
    FDiv(FMul(FDiv(FMul(FAdd(FMul(FSq(TermTmp2),
                                  FSub(self.theta, FMul(Num(2), self.sigma))),
                             FDiv(FMul(Num(2), FSq(TermX0)), self.mr)),
                        FSub(One, FSq(TermE))),
                   FMul(Num(8), TermA)),
              FSub(One, TermEMon)),
         FAdd(One, TermEMon))

\* the continuous base strike and the four terms, added from the left
SumOf(base, t1, t2, t3, t4) == FAdd(FAdd(FAdd(FAdd(base, t1), t2), t3), t4)

TermBase == MeanFrom(self.sigma, last.args[1])

\* the sum in the order of the source and in three other orders
SumSource == SumOf(TermBase, TermRate, TermVov, TermCross, TermConvex)
SumPaired ==
    FAdd(TermBase, FAdd(FAdd(TermRate, TermVov), FAdd(TermCross, TermConvex)))
SumReversed == SumOf(TermBase, TermConvex, TermCross, TermVov, TermRate)
SumShuffled == SumOf(TermBase, TermCross, TermRate, TermConvex, TermVov)

\* 2^-49 times the sum of the magnitudes of the five summands: more than two
\* sums of them in different orders can differ by rounding
SumTolerance ==
    FMul(<<1, -101, MantPow2>>,
         SumOf(FAbs(TermBase), FAbs(TermRate), FAbs(TermVov), FAbs(TermCross),
               FAbs(TermConvex)))

Near(x, y) == FLe(FAbs(FSub(x, y)), SumTolerance)

\* C9 as stated: with n_per_yr given, varswap returns the continuous strike
\* (var0 = sigma) plus the rate, vol-of-vol, cross and convexity terms, each
\* once, the rate term on tmp1 = theta - 2*intr and the other three on tmp2 =
\* vov/mr; the same result whatever the order of the four additions.
C9_FourTerms ==
    (last.op = "varswap" /\ last.args[2] # None) =>
        /\ last.ret[1] = SumSource
        /\ last.ret[1] = SumPaired
        /\ last.ret[1] = SumReversed
        /\ last.ret[1] = SumShuffled

\* C9 amended: with n_per_yr given, varswap returns the continuous strike
\* (var0 = sigma) plus the rate, vol-of-vol, cross and convexity terms, each
\* once and each from the parameters, texp and n_per_yr alone, added in that
\* order; the additions are rounded, so another order of them gives the same
\* result up to rounding and not always the same double.
C9_FourTermsRounded ==
    (last.op = "varswap" /\ last.args[2] # None) =>
        /\ last.ret[1] = SumSource
        /\ Near(last.ret[1], SumPaired)
        /\ Near(last.ret[1], SumReversed)
        /\ Near(last.ret[1], SumShuffled)

C9_Witness ==
    /\ last.op = "varswap" /\ last.args[2] # None
    /\ TermRate # Zero /\ TermVov # Zero /\ TermCross # Zero /\ TermConvex # Zero
    /\ TermTmp1 # TermTmp2
    /\ last.ret[1] = SumSource /\ last.ret[1] # SumReversed

\* C10: price raises the unsupported-order error exactly when order > 2; with
\* an order below 1 it raises nothing and returns the base price, the price
\* of the same instance with order = 1.
C10_RaisesIffAbove2 ==
    IsPrice =>
        /\ (last.raised = "ValueError") <=> (self.order > 2)
        /\ last.raised \in {"ValueError", "None"}
        /\ (self.order \notin {1, 2} /\ self.order <= 2) =>
              /\ last.raised = "None"
              /\ last.ret[1] = Base
              /\ last.ret[1] =
                   price([self EXCEPT !.order = 1], Strike, Spot, Texp, Cp).ret

C10_Witness == IsPrice /\ self.order < 0 /\ last.raised = "None" /\ last.ret[1] = Base
====
